---- MODULE Spec2Model ----
(***************************************************************************)
(* Model of the extraction / aggregation / CSV pipeline of                 *)
(* financial-structuring-api (app/pipeline/extractor.py,                   *)
(* app/pipeline/aggregator.py, app/utils/csv_converter.py, app/main.py).   *)
(*                                                                         *)
(* Text is modelled as a sequence of one-character strings, a model        *)
(* response as a sequence of JSON tokens, a Python value as a tagged       *)
(* record, a dict as a function from a set of keys to Python values.       *)
(***************************************************************************)
EXTENDS Integers, Sequences, FiniteSets, TLC

VARIABLES
    ext_pc, ext_name, ext_reply, ext_result,          \* one extract_data call
    norm_pc, norm_in, norm_out,                       \* one _normalize_record call
    mg_pc, mg_in, mg_records, mg_out,                 \* one merge_data call
    up_pc, up_files, processed_data, up_merged, up_saved,   \* POST /upload/
    csv_pc, csv_data, csv_pos, csv_file,              \* create_csv calls on output.csv
    hc_pc, hc_reply, hc_extracted, hc_pipeline        \* GET /health

extVars == <<ext_pc, ext_name, ext_reply, ext_result>>
normVars == <<norm_pc, norm_in, norm_out>>
mgVars == <<mg_pc, mg_in, mg_records, mg_out>>
upVars == <<up_pc, up_files, processed_data, up_merged, up_saved>>
csvVars == <<csv_pc, csv_data, csv_pos, csv_file>>
hcVars == <<hc_pc, hc_reply, hc_extracted, hc_pipeline>>
vars == <<extVars, normVars, mgVars, upVars, csvVars, hcVars>>

(* ------------------------------ bounds --------------------------------- *)
MaxNameLen == 2
MaxTextLen == 4
MaxStrLen == 4
MaxInputSize == 4
MaxFiles == 2
MaxRows == 2
MaxHealthTextLen == 2
NumUuids == 2
NumWriters == 2

(* --------------------------- generic helpers --------------------------- *)
SeqsUpTo(S, n) == UNION {[1..k -> S] : k \in 0..n}

(* ---------------------------- Python values ---------------------------- *)
\* A number is m * 10^e; a str carries its characters in s.
PyNone == [t |-> "none", m |-> 0, e |-> 0, s |-> <<>>]
PyStr(s) == [t |-> "str", m |-> 0, e |-> 0, s |-> s]
PyInt(m, e) == [t |-> "int", m |-> m, e |-> e, s |-> <<>>]
PyFloat(m, e) == [t |-> "float", m |-> m, e |-> e, s |-> <<>>]
PyList == [t |-> "list", m |-> 0, e |-> 0, s |-> <<>>]

EmptyDict == [k \in {} |-> PyNone]

(* ------------------------------ extractor ------------------------------ *)
\* JSON tokens of a model response text.  A pair token is one "key": value
\* member of a JSON object.
PairToks == {"vendor:V", "source:S", "amount:BIG", "date:D"}
PairKey(tok) ==
    CASE tok = "vendor:V" -> "vendor"
      [] tok = "source:S" -> "source"
      [] tok = "amount:BIG" -> "amount"
      [] tok = "date:D" -> "date"

BigExp == 400
PairVal(tok) ==
    CASE tok = "vendor:V" -> PyStr(<<"V">>)
      [] tok = "source:S" -> PyStr(<<"S">>)
      [] tok = "amount:BIG" -> PyInt(1, BigExp)
      [] tok = "date:D" -> PyStr(<<"D">>)

\* str.strip() on a token text: whitespace tokens removed at both ends.
RECURSIVE LStripToks(_)
LStripToks(text) ==
    IF text # <<>> /\ Head(text) = " " THEN LStripToks(Tail(text)) ELSE text

RECURSIVE RStripToks(_)
RStripToks(text) ==
    IF text # <<>> /\ text[Len(text)] = " "
    THEN RStripToks(SubSeq(text, 1, Len(text) - 1))
    ELSE text

StripToks(text) == RStripToks(LStripToks(text))

\* re.search(r"\{.*\}", text, re.DOTALL): leftmost "{", greedy to the last
\* "}" behind it.  <<>> stands for "no match" (a match has at least 2 tokens).
RECURSIVE DropUntilOpen(_)
DropUntilOpen(text) ==
    IF text = <<>> \/ Head(text) = "{" THEN text ELSE DropUntilOpen(Tail(text))

RECURSIVE DropAfterClose(_)
DropAfterClose(text) ==
    IF text = <<>> \/ text[Len(text)] = "}"
    THEN text
    ELSE DropAfterClose(SubSeq(text, 1, Len(text) - 1))

ReSearch(text) ==
    LET m == DropAfterClose(DropUntilOpen(text))
    IN  IF Len(m) >= 2 THEN m ELSE <<>>

\* json.loads on the matched tokens: whitespace between tokens is skipped,
\* then "{" (pair ("," pair)*)? "}"; a repeated key keeps its last value.
RECURSIVE SkipWs(_)
SkipWs(toks) ==
    IF toks = <<>> THEN <<>>
    ELSE IF Head(toks) = " " THEN SkipWs(Tail(toks))
    ELSE <<Head(toks)>> \o SkipWs(Tail(toks))

RECURSIVE MembersOk(_)
MembersOk(inner) ==
    /\ inner # <<>>
    /\ Head(inner) \in PairToks
    /\ \/ Len(inner) = 1
       \/ /\ Len(inner) >= 3
          /\ inner[2] = ","
          /\ MembersOk(SubSeq(inner, 3, Len(inner)))

RECURSIVE MembersDict(_)
MembersDict(inner) ==
    IF inner = <<>> THEN EmptyDict
    ELSE LET rest == MembersDict(SubSeq(inner, 1, Len(inner) - 2))
             tok == inner[Len(inner)]
         IN  [k \in DOMAIN rest \cup {PairKey(tok)} |->
                 IF k = PairKey(tok) THEN PairVal(tok) ELSE rest[k]]

JsonLoadsOk(toks) ==
    LET c == SkipWs(toks)
    IN  /\ Len(c) >= 2
        /\ c[1] = "{"
        /\ c[Len(c)] = "}"
        /\ \/ Len(c) = 2
           \/ MembersOk(SubSeq(c, 2, Len(c) - 1))

JsonLoads(toks) ==
    LET c == SkipWs(toks)
    IN  IF Len(c) = 2 THEN EmptyDict ELSE MembersDict(SubSeq(c, 2, Len(c) - 1))

\* What requests.post / response.json() can hand back.
\*   exc      requests.post raised (connection refused, ...)
\*   notjson  the body is not JSON: response.json() raises
\*   list     the body is JSON but not an object: data.get raises
\*   nullresp the body is {"response": null}: .strip() raises
\*   noresp   the body is an object without "response": text is ""
\*   text     the body is {"response": <text>}
Reply(kind, status, text) == [kind |-> kind, status |-> status, text |-> text]

\* ai_extract, from the reply on: the parsed dict, or None.
AiNone == [some |-> FALSE, d |-> EmptyDict]
AiDict(d) == [some |-> TRUE, d |-> d]

ai_extract(reply) ==
    IF reply.kind \in {"exc", "notjson", "list", "nullresp"} THEN AiNone
    ELSE LET text == IF reply.kind = "noresp" THEN <<>> ELSE StripToks(reply.text)
             json_match == ReSearch(text)
         IN  IF json_match = <<>> THEN AiNone
             ELSE IF JsonLoadsOk(json_match) THEN AiDict(JsonLoads(json_match))
             ELSE AiNone

\* filename.split('.')[0]
RECURSIVE SplitFirst(_)
SplitFirst(name) ==
    IF name = <<>> \/ Head(name) = "." THEN <<>>
    ELSE <<Head(name)>> \o SplitFirst(Tail(name))

\* fallback_extract keeping the extension in vendor
fallback_extract_keepext(filename) ==
    [date |-> PyStr(<<>>),
     vendor |-> PyStr(filename),
     amount |-> PyInt(0, 0),
     tax |-> PyInt(0, 0),
     source |-> PyStr(filename)]

fallback_extract(filename) ==
    LET base_name == IF filename # <<>> THEN SplitFirst(filename) ELSE <<>>
    IN  [date |-> PyStr(<<>>),
         vendor |-> PyStr(base_name),
         amount |-> PyInt(0, 0),
         tax |-> PyInt(0, 0),
         source |-> PyStr(filename)]

\* `if ai_result:` is the truth value of the dict: an empty dict is falsy.
Truthy(ai) == ai.some /\ DOMAIN ai.d # {}

extract_data(filename, reply) ==
    LET ai_result == ai_extract(reply)
    IN  IF Truthy(ai_result)
        THEN [k \in DOMAIN ai_result.d \cup {"source"} |->
                 IF k = "source" THEN PyStr(filename) ELSE ai_result.d[k]]
        ELSE fallback_extract(filename)

(* ------------------------------ aggregator ----------------------------- *)
Get(d, k, default) == IF k \in DOMAIN d THEN d[k] ELSE default

\* str.strip() and str.lower() on a character sequence.
RECURSIVE LStrip(_)
LStrip(s) == IF s # <<>> /\ Head(s) = " " THEN LStrip(Tail(s)) ELSE s

RECURSIVE RStrip(_)
RStrip(s) ==
    IF s # <<>> /\ s[Len(s)] = " " THEN RStrip(SubSeq(s, 1, Len(s) - 1)) ELSE s

Strip(s) == RStrip(LStrip(s))

LowerChar(c) ==
    CASE c = "U" -> "u"
      [] c = "N" -> "n"
      [] c = "K" -> "k"
      [] c = "O" -> "o"
      [] c = "W" -> "w"
      [] c = "A" -> "a"
      [] OTHER -> c

Lower(s) == [i \in 1..Len(s) |-> LowerChar(s[i])]

\* str(value)
DigitChar(n) ==
    CASE n = 0 -> "0" [] n = 1 -> "1" [] n = 2 -> "2" [] n = 3 -> "3"
      [] n = 4 -> "4" [] n = 5 -> "5" [] n = 6 -> "6" [] n = 7 -> "7"
      [] n = 8 -> "8" [] n = 9 -> "9"

RECURSIVE Digits(_)
Digits(n) == IF n < 10 THEN <<DigitChar(n)>> ELSE Digits(n \div 10) \o <<DigitChar(n % 10)>>

PyStrOf(v) ==
    CASE v.t = "str" -> v.s
      [] v.t = "none" -> <<"N", "o", "n", "e">>
      [] v.t = "list" -> <<"[", "]">>
      [] v.t = "int" -> Digits(v.m) \o [i \in 1..v.e |-> "0"]

\* The placeholder tuple ("", "unknown", "n/a")
Placeholders == {<<>>, <<"u", "n", "k", "n", "o", "w", "n">>, <<"n", "/", "a">>}

\* float(): a number m * 10^e is kept with m free of trailing zeros.
RECURSIVE NormNum(_, _)
NormNum(m, e) ==
    IF m = 0 THEN <<0, 0>>
    ELSE IF m % 10 = 0 THEN NormNum(m \div 10, e + 1)
    ELSE <<m, e>>

ToFloat(m, e) == LET n == NormNum(m, e) IN PyFloat(n[1], n[2])

\* An int converts to a double only below 2^1024 (about 1.797 * 10^308).
RECURSIVE DigitsLead(_)
DigitsLead(m) == IF m < 100 THEN m ELSE DigitsLead(m \div 10)
FloatMaxDigits == 309
FloatMaxLead == 17
NumDigits(m, e) == Len(Digits(m)) + e
Lead2(m) == IF m < 10 THEN 10 * m ELSE DigitsLead(m)
IntTooLarge(m, e) ==
    /\ m # 0
    /\ \/ NumDigits(m, e) > FloatMaxDigits
       \/ NumDigits(m, e) = FloatMaxDigits /\ Lead2(m) > FloatMaxLead

\* float(str): surrounding whitespace is ignored; digits with at most one
\* "." and at least one digit parse, anything else is a ValueError.
DigitChars == {"0", "1", "2", "3", "4", "5", "6", "7", "8", "9"}
DigitVal(c) == CHOOSE n \in 0..9 : DigitChar(n) = c

RECURSIVE DigitsVal(_)
DigitsVal(s) ==
    IF s = <<>> THEN 0 ELSE 10 * DigitsVal(SubSeq(s, 1, Len(s) - 1)) + DigitVal(s[Len(s)])

FloatStrOk(s) ==
    LET c == Strip(s)
        dots == {i \in 1..Len(c) : c[i] = "."}
    IN  /\ \A i \in 1..Len(c) : c[i] \in DigitChars \cup {"."}
        /\ Cardinality(dots) <= 1
        /\ Len(c) - Cardinality(dots) >= 1

FloatOfStr(s) ==
    LET c == Strip(s)
        dots == {i \in 1..Len(c) : c[i] = "."}
        dot == IF dots = {} THEN Len(c) + 1 ELSE CHOOSE i \in dots : TRUE
        digs == SubSeq(c, 1, dot - 1) \o SubSeq(c, dot + 1, Len(c))
    IN  ToFloat(DigitsVal(digs), 0 - (Len(c) - dot + (IF dots = {} THEN 1 ELSE 0)))

\* _safe_float: the float, or the exception that leaves the function.
Returned(v) == [raised |-> FALSE, v |-> v]
Raised == [raised |-> TRUE, v |-> PyNone]

_safe_float(value) ==
    IF value.t \in {"int", "float"}
    THEN IF value.t = "int" /\ IntTooLarge(value.m, value.e)
         THEN Raised
         ELSE Returned(ToFloat(value.m, value.e))
    ELSE IF value.t = "str" /\ FloatStrOk(value.s)
         THEN Returned(FloatOfStr(value.s))
         ELSE Returned(PyFloat(0, 0))

\* the placeholder test without .lower()
IsPlaceholder_nolower(raw) == raw.t = "none" \/ Strip(PyStrOf(raw)) \in Placeholders

\* _normalize_record; uuid is the value uuid.uuid4() returns.
IsPlaceholder(raw) == raw.t = "none" \/ Lower(Strip(PyStrOf(raw))) \in Placeholders

_normalize_record(record, uuid) ==
    LET raw_date0 == Get(record, "date", PyStr(<<>>))
        raw_date == IF IsPlaceholder(raw_date0) THEN PyStr(<<>>) ELSE raw_date0
        raw_vendor0 == Get(record, "vendor", PyStr(<<>>))
        raw_vendor == IF IsPlaceholder(raw_vendor0) THEN PyStr(<<>>) ELSE raw_vendor0
        amount == _safe_float(Get(record, "amount", PyInt(0, 0)))
        tax == _safe_float(Get(record, "tax", PyInt(0, 0)))
    IN  IF amount.raised \/ tax.raised THEN [raised |-> TRUE, rec |-> EmptyDict]
        ELSE [raised |-> FALSE,
              rec |-> [date |-> PyStr(PyStrOf(raw_date)),
                       vendor |-> PyStr(PyStrOf(raw_vendor)),
                       amount |-> amount.v,
                       tax |-> tax.v,
                       source |-> PyStr(PyStrOf(Get(record, "source", PyStr(<<>>)))),
                       record_id |-> PyStr(<<uuid>>)]]

\* An item of merge_data's input: a dict, a list of elements, or anything else.
DictItem(d) == [k |-> "dict", d |-> d, l |-> <<>>]
ListItem(l) == [k |-> "list", d |-> EmptyDict, l |-> l]
OtherItem == [k |-> "other", d |-> EmptyDict, l |-> <<>>]

\* _flatten_records
RECURSIVE FlattenList(_)
FlattenList(l) ==
    IF l = <<>> THEN <<>>
    ELSE (IF Head(l).k = "dict" THEN <<Head(l).d>> ELSE <<>>) \o FlattenList(Tail(l))

\* _flatten_records without the list branch
RECURSIVE _flatten_records_dictonly(_)
_flatten_records_dictonly(results) ==
    IF results = <<>> THEN <<>>
    ELSE (IF Head(results).k = "dict" THEN <<Head(results).d>> ELSE <<>>)
         \o _flatten_records_dictonly(Tail(results))

RECURSIVE _flatten_records(_)
_flatten_records(results) ==
    IF results = <<>> THEN <<>>
    ELSE LET item == Head(results)
         IN  (IF item.k = "dict" THEN <<item.d>>
              ELSE IF item.k = "list" THEN FlattenList(item.l)
              ELSE <<>>) \o _flatten_records(Tail(results))

\* merge_data; uuids[i] is what uuid.uuid4() returns for the i-th record.
merge_data(extraction_results, uuids) ==
    LET records == _flatten_records(extraction_results)
        normalized == [i \in 1..Len(records) |-> _normalize_record(records[i], uuids[i])]
    IN  IF \E i \in 1..Len(records) : normalized[i].raised
        THEN [raised |-> TRUE, out |-> <<>>]
        ELSE [raised |-> FALSE, out |-> [i \in 1..Len(records) |-> normalized[i].rec]]

(* ----------------------- extract_data as a process --------------------- *)
NameChars == {"a", "."}
Names == SeqsUpTo(NameChars, MaxNameLen)
Tok == {"{", "}", ",", " ", "x", "vendor:V", "source:S"}
Texts == SeqsUpTo(Tok, MaxTextLen)
Statuses == {200, 500}
Replies ==
    {Reply("exc", 0, <<>>)}
    \cup {Reply(k, st, <<>>) : k \in {"notjson", "list", "nullresp", "noresp"}, st \in Statuses}
    \cup {Reply("text", st, tx) : st \in Statuses, tx \in Texts}

NoReply == Reply("none", 0, <<>>)

\* uuid.uuid4() draws 122 random bits; str() of it is the record_id.
Uuids == {Digits(i)[1] : i \in 1..NumUuids}

ExtInit ==
    /\ ext_pc = "idle"
    /\ ext_name = <<>>
    /\ ext_reply = NoReply
    /\ ext_result = EmptyDict

NormInit ==
    /\ norm_pc = "idle"
    /\ norm_in = EmptyDict
    /\ norm_out = [raised |-> FALSE, rec |-> EmptyDict]

MgInit ==
    /\ mg_pc = "idle"
    /\ mg_in = <<>>
    /\ mg_records = <<>>
    /\ mg_out = [raised |-> FALSE, out |-> <<>>]

UpInit ==
    /\ up_pc = "idle"
    /\ up_files = <<>>
    /\ processed_data = <<>>
    /\ up_merged = <<>>
    /\ up_saved = {}

Writers == 1..NumWriters
NoFile == <<>>

CsvInit ==
    /\ csv_pc = [p \in Writers |-> "idle"]
    /\ csv_data = [p \in Writers |-> <<>>]
    /\ csv_pos = [p \in Writers |-> 0]
    /\ csv_file = NoFile

HcInit ==
    /\ hc_pc = "idle"
    /\ hc_reply = NoReply
    /\ hc_extracted = EmptyDict
    /\ hc_pipeline = [extractor |-> "", aggregator |-> "", csv_converter |-> "", status |-> "ok"]

Init == ExtInit /\ NormInit /\ MgInit /\ UpInit /\ CsvInit /\ HcInit

(* ---- extract_data ---- *)
\* extract_data is entered and ai_extract issues requests.post (no timeout).
ExtractCall ==
    /\ ext_pc = "idle"
    /\ \E name \in Names : ext_name' = name
    /\ ext_pc' = "posting"
    /\ UNCHANGED <<ext_reply, ext_result>>
    /\ UNCHANGED <<normVars, mgVars, upVars, csvVars, hcVars>>

\* The service answers (or the call raises) and extract_data runs to its return.
ExtractReturn ==
    /\ ext_pc = "posting"
    /\ \E reply \in Replies :
          /\ ext_reply' = reply
          /\ ext_result' = extract_data(ext_name, reply)
    /\ ext_pc' = "done"
    /\ UNCHANGED ext_name
    /\ UNCHANGED <<normVars, mgVars, upVars, csvVars, hcVars>>

\* The service accepts the connection and never answers; requests.post has
\* no timeout, so the call stays blocked.
ExtractHang ==
    /\ ext_pc = "posting"
    /\ ext_pc' = "hung"
    /\ UNCHANGED <<ext_name, ext_reply, ext_result>>
    /\ UNCHANGED <<normVars, mgVars, upVars, csvVars, hcVars>>

ExtNext == ExtractCall \/ ExtractReturn \/ ExtractHang

SpecExtract == Init /\ [][ExtNext]_vars

(* ---- _normalize_record ---- *)
StrChars == {"n", "N", "/", "a", " "}
Unknowns ==
    {<<"u", "n", "k", "n", "o", "w", "n">>,
     <<"U", "n", "k", "n", "o", "w", "n">>,
     <<" ", "U", "N", "K", "N", "O", "W", "N", " ">>,
     <<"u", "n", "k", "n", "o", "w", "n", "s">>,
     <<"u", "n", " ", "k", "n", "o", "w", "n">>,
     <<"N", "/", "A">>,
     <<" ", "N", "/", "A", " ">>}
DateVals ==
    {PyStr(s) : s \in SeqsUpTo(StrChars, MaxStrLen) \cup Unknowns}
    \cup {PyNone, PyInt(0, 0), PyList}
VendorVals ==
    {PyStr(s) : s \in Unknowns \cup {<<>>, <<" ">>, <<"A", "B", "C">>}}
    \cup {PyNone}
AmountVals ==
    {PyStr(s) : s \in {<<"1", "2", ".", "5">>, <<"a", "b", "c">>, <<>>, <<" ", "5", " ">>,
                       <<"1", ".">>, <<".", "5">>, <<".">>, <<"1", " ", "2">>, <<"1", ".", "2", ".">>}}
    \cup {PyNone, PyList, PyInt(0, 0), PyInt(50, 0), PyFloat(125, -1),
          PyInt(1, BigExp), PyInt(17, 307), PyInt(18, 307)}
TaxVals == {PyStr(<<"a", "b", "c">>), PyInt(5, 0), PyInt(1, BigExp)}
SourceVals == {PyStr(<<"a", ".", "b">>), PyNone}

\* A dict with the given optional entries; Absent leaves the key out.
Absent == [t |-> "absent", m |-> 0, e |-> 0, s |-> <<>>]
MkDict(date, vendor, amount, tax, source) ==
    LET all == [date |-> date, vendor |-> vendor, amount |-> amount, tax |-> tax, source |-> source]
    IN  [k \in {x \in DOMAIN all : all[x] # Absent} |-> all[k]]

\* Every date with every vendor, and every amount with every tax and source.
NormInputs ==
    {MkDict(d, v, Absent, Absent, Absent) :
        d \in DateVals \cup {Absent}, v \in VendorVals \cup {Absent}}
    \cup {MkDict(d, v, a, t, s) :
        d \in {Absent, PyStr(<<"n", "/", "a">>)}, v \in {Absent, PyStr(<<"A", "B", "C">>)},
        a \in AmountVals \cup {Absent}, t \in TaxVals \cup {Absent}, s \in SourceVals \cup {Absent}}

NormalizeCall ==
    /\ norm_pc = "idle"
    /\ \E record \in NormInputs, uuid \in Uuids :
          /\ norm_in' = record
          /\ norm_out' = _normalize_record(record, uuid)
    /\ norm_pc' = "done"
    /\ UNCHANGED <<extVars, mgVars, upVars, csvVars, hcVars>>

NormNext == NormalizeCall

SpecNormalize == Init /\ [][NormNext]_vars

(* ---- merge_data ---- *)
DateOnly(c) == MkDict(PyStr(<<c>>), Absent, Absent, Absent, Absent)
MergeDicts == {DateOnly("x"), DateOnly("y"), DateOnly("z")}
Elems == {DictItem(d) : d \in MergeDicts} \cup {OtherItem}

\* The inputs of a given size: a dict or any other scalar counts 1, a list
\* 1 plus its length.
ItemsOfSize(k) ==
    IF k = 1
    THEN {DictItem(d) : d \in MergeDicts} \cup {OtherItem, ListItem(<<>>)}
    ELSE {ListItem(l) : l \in [1..(k - 1) -> Elems]}

RECURSIVE InputsOfSize(_)
InputsOfSize(n) ==
    IF n = 0 THEN {<<>>}
    ELSE UNION {{<<item>> \o rest : item \in ItemsOfSize(k), rest \in InputsOfSize(n - k)} :
                   k \in 1..n}

MergeInputs == UNION {InputsOfSize(n) : n \in 0..MaxInputSize}

UuidSeqs(n) == [1..n -> Uuids]

MergeCall ==
    /\ mg_pc = "idle"
    /\ \E results \in MergeInputs :
          \E uuids \in UuidSeqs(Len(_flatten_records(results))) :
              /\ mg_in' = results
              /\ mg_records' = _flatten_records(results)
              /\ mg_out' = merge_data(results, uuids)
    /\ mg_pc' = "done"
    /\ UNCHANGED <<extVars, normVars, upVars, csvVars, hcVars>>

MergeNext == MergeCall

SpecMerge == Init /\ [][MergeNext]_vars

(* ---- create_csv ---- *)
CANONICAL_COLUMNS == <<"date", "vendor", "amount", "tax", "source", "record_id">>

\* A line of the destination file: the header, one record's row, or the
\* zero bytes a write behind the end of file leaves in front of it.
HeaderLine(data) ==
    [kind |-> "header", cols |-> IF data = <<>> THEN <<>> ELSE CANONICAL_COLUMNS, rec |-> EmptyDict]
RowLine(rec) == [kind |-> "row", cols |-> <<>>, rec |-> rec]
HoleLine == [kind |-> "hole", cols |-> <<>>, rec |-> EmptyDict]

\* The lines DataFrame(data).to_csv(path, index=False) writes.
CsvLines(data) == <<HeaderLine(data)>> \o [i \in 1..Len(data) |-> RowLine(data[i])]

\* A write of one line at a file offset (each open file has its own offset).
WriteAt(file, pos, line) ==
    [i \in 1..(IF Len(file) > pos THEN Len(file) ELSE pos) |->
        IF i = pos THEN line
        ELSE IF i <= Len(file) THEN file[i]
        ELSE HoleLine]

\* to_csv opens the destination with mode "w": the file is truncated.
CsvOpen ==
    \E p \in Writers :
        /\ csv_pc[p] = "open"
        /\ csv_file' = <<>>
        /\ csv_pos' = [csv_pos EXCEPT ![p] = 0]
        /\ csv_pc' = [csv_pc EXCEPT ![p] = "write"]
        /\ UNCHANGED csv_data
        /\ UNCHANGED <<extVars, normVars, mgVars, upVars, hcVars>>

\* The destination cannot be opened: the error leaves create_csv.
CsvOpenError ==
    \E p \in Writers :
        /\ csv_pc[p] = "open"
        /\ csv_pc' = [csv_pc EXCEPT ![p] = "failed"]
        /\ UNCHANGED <<csv_data, csv_pos, csv_file>>
        /\ UNCHANGED <<extVars, normVars, mgVars, upVars, hcVars>>

\* The next line reaches the file.
CsvWrite ==
    \E p \in Writers :
        /\ csv_pc[p] = "write"
        /\ csv_pos[p] < Len(CsvLines(csv_data[p]))
        /\ csv_file' = WriteAt(csv_file, csv_pos[p] + 1, CsvLines(csv_data[p])[csv_pos[p] + 1])
        /\ csv_pos' = [csv_pos EXCEPT ![p] = @ + 1]
        /\ UNCHANGED <<csv_pc, csv_data>>
        /\ UNCHANGED <<extVars, normVars, mgVars, upVars, hcVars>>

\* A write fails (disk full, ...): the error leaves create_csv, the file
\* keeps what was written so far.
CsvWriteError ==
    \E p \in Writers :
        /\ csv_pc[p] = "write"
        /\ csv_pos[p] < Len(CsvLines(csv_data[p]))
        /\ csv_pc' = [csv_pc EXCEPT ![p] = "failed"]
        /\ UNCHANGED <<csv_data, csv_pos, csv_file>>
        /\ UNCHANGED <<extVars, normVars, mgVars, upVars, hcVars>>

\* All lines are written; the file is closed and create_csv returns.
CsvClose ==
    \E p \in Writers :
        /\ csv_pc[p] = "write"
        /\ csv_pos[p] = Len(CsvLines(csv_data[p]))
        /\ csv_pc' = [csv_pc EXCEPT ![p] = "done"]
        /\ UNCHANGED <<csv_data, csv_pos, csv_file>>
        /\ UNCHANGED <<extVars, normVars, mgVars, upVars, hcVars>>

\* A pipeline run (one server process) reaches create_csv(merged, output.csv).
CanonRec(src, uuid) ==
    [date |-> PyStr(<<>>), vendor |-> PyStr(<<src>>), amount |-> PyFloat(0, 0),
     tax |-> PyFloat(0, 0), source |-> PyStr(<<src>>), record_id |-> PyStr(<<uuid>>)]
CsvRecords == {CanonRec("a", "1"), CanonRec("b", "2")}

CsvCall ==
    \E p \in Writers :
        /\ csv_pc[p] = "idle"
        /\ \E data \in SeqsUpTo(CsvRecords, MaxRows) : csv_data' = [csv_data EXCEPT ![p] = data]
        /\ csv_pc' = [csv_pc EXCEPT ![p] = "open"]
        /\ UNCHANGED <<csv_pos, csv_file>>
        /\ UNCHANGED <<extVars, normVars, mgVars, upVars, hcVars>>

CsvSteps == CsvOpen \/ CsvOpenError \/ CsvWrite \/ CsvWriteError \/ CsvClose

CsvNext == CsvCall \/ CsvSteps

SpecCsv == Init /\ [][CsvNext]_vars

(* ---- POST /upload/ ---- *)
Unnamed == <<"u", "n", "n", "a", "m", "e", "d">>
UploadFileNames == {<<>>, <<"a">>, <<"a", ".", "b">>}
UploadReplies ==
    {Reply("exc", 0, <<>>),
     Reply("text", 200, <<"x">>),
     Reply("text", 200, <<"{", "}">>),
     Reply("text", 200, <<"{", "vendor:V", "}">>),
     Reply("text", 200, <<"{", "amount:BIG", "}">>),
     Reply("text", 500, <<"{", "source:S", "}">>)}

\* filename = file.filename or "unnamed"
FileName(raw) == IF raw = <<>> THEN Unnamed ELSE raw

UpIndex == Len(processed_data) + 1

\* The request arrives; the first file is stored and extract_data posts.
UploadCall ==
    /\ up_pc = "idle"
    /\ \E files \in SeqsUpTo(UploadFileNames, MaxFiles) :
          /\ files # <<>>
          /\ up_files' = files
          /\ up_saved' = {FileName(files[1])}
    /\ up_pc' = "posting"
    /\ UNCHANGED <<processed_data, up_merged>>
    /\ UNCHANGED <<extVars, normVars, mgVars, csvVars, hcVars>>

\* extract_data returns for the current file; the loop goes on to the next
\* file (stores it, posts) or leaves for merge_data.
UploadExtractReturn ==
    /\ up_pc = "posting"
    /\ \E reply \in UploadReplies :
          processed_data' = Append(processed_data, extract_data(FileName(up_files[UpIndex]), reply))
    /\ IF UpIndex < Len(up_files)
       THEN /\ up_pc' = "posting"
            /\ up_saved' = up_saved \cup {FileName(up_files[UpIndex + 1])}
       ELSE /\ up_pc' = "merge"
            /\ UNCHANGED up_saved
    /\ UNCHANGED <<up_files, up_merged>>
    /\ UNCHANGED <<extVars, normVars, mgVars, csvVars, hcVars>>

\* The extraction service never answers the current file's request.
UploadExtractHang ==
    /\ up_pc = "posting"
    /\ up_pc' = "hung"
    /\ UNCHANGED <<up_files, processed_data, up_merged, up_saved>>
    /\ UNCHANGED <<extVars, normVars, mgVars, csvVars, hcVars>>

\* merged = merge_data(processed_data); create_csv(merged, csv_path) is entered.
\* An exception of merge_data leaves the handler (HTTP 500).
UploadMerge ==
    /\ up_pc = "merge"
    /\ \E uuids \in UuidSeqs(Len(_flatten_records([i \in 1..Len(processed_data) |-> DictItem(processed_data[i])]))) :
          LET r == merge_data([i \in 1..Len(processed_data) |-> DictItem(processed_data[i])], uuids)
          IN  IF r.raised
              THEN /\ up_pc' = "merge_raised"
                   /\ UNCHANGED <<up_merged, csvVars>>
              ELSE /\ up_pc' = "csv"
                   /\ up_merged' = r.out
                   /\ csv_data' = [csv_data EXCEPT ![1] = r.out]
                   /\ csv_pc' = [csv_pc EXCEPT ![1] = "open"]
                   /\ UNCHANGED <<csv_pos, csv_file>>
    /\ UNCHANGED <<up_files, processed_data, up_saved>>
    /\ UNCHANGED <<extVars, normVars, mgVars, hcVars>>

\* create_csv returned: the handler answers with the merged records;
\* create_csv raised: the error leaves the handler (HTTP 500).
UploadReturn ==
    /\ up_pc = "csv"
    /\ csv_pc[1] \in {"done", "failed"}
    /\ up_pc' = IF csv_pc[1] = "done" THEN "done" ELSE "csv_raised"
    /\ UNCHANGED <<up_files, processed_data, up_merged, up_saved>>
    /\ UNCHANGED <<extVars, normVars, mgVars, csvVars, hcVars>>

UploadNext ==
    UploadCall \/ UploadExtractReturn \/ UploadExtractHang \/ UploadMerge \/ UploadReturn
    \/ CsvSteps

SpecUpload == Init /\ [][UploadNext]_vars

(* ---- GET /health ---- *)
TestTxt == <<"t", "e", "s", "t", ".", "t", "x", "t">>
HealthReplies == {r \in Replies : Len(r.text) <= MaxHealthTextLen}
HealthRecord ==
    MkDict(PyStr(<<"2", "0", "2", "4">>), PyStr(TestTxt), PyInt(0, 0), PyInt(0, 0), PyStr(TestTxt))

\* extract_data("test.txt", "") posts to the extraction service.
HealthCall ==
    /\ hc_pc = "idle"
    /\ hc_pc' = "posting"
    /\ UNCHANGED <<hc_reply, hc_extracted, hc_pipeline>>
    /\ UNCHANGED <<extVars, normVars, mgVars, upVars, csvVars>>

HealthExtractReturn ==
    /\ hc_pc = "posting"
    /\ \E reply \in HealthReplies :
          /\ hc_reply' = reply
          /\ hc_extracted' = extract_data(TestTxt, reply)
    /\ hc_pipeline' = [hc_pipeline EXCEPT !.extractor = "ok"]
    /\ hc_pc' = "merge"
    /\ UNCHANGED <<extVars, normVars, mgVars, upVars, csvVars>>

HealthExtractHang ==
    /\ hc_pc = "posting"
    /\ hc_pc' = "hung"
    /\ UNCHANGED <<hc_reply, hc_extracted, hc_pipeline>>
    /\ UNCHANGED <<extVars, normVars, mgVars, upVars, csvVars>>

\* merge_data on the fixed record, then create_csv([], .health_check) and
\* os.remove; each failure is caught and reported as "degraded".
HealthFinish ==
    /\ hc_pc = "merge"
    /\ \E uuid \in Uuids, io_ok \in BOOLEAN :
          LET r == merge_data(<<DictItem(HealthRecord)>>, <<uuid>>)
              agg == IF r.raised THEN "error" ELSE "ok"
              csv == IF io_ok THEN "ok" ELSE "error"
          IN  hc_pipeline' = [hc_pipeline EXCEPT
                                !.aggregator = agg,
                                !.csv_converter = csv,
                                !.status = IF agg = "ok" /\ csv = "ok" THEN "ok" ELSE "degraded"]
    /\ hc_pc' = "done"
    /\ UNCHANGED <<hc_reply, hc_extracted>>
    /\ UNCHANGED <<extVars, normVars, mgVars, upVars, csvVars>>

HealthNext == HealthCall \/ HealthExtractReturn \/ HealthExtractHang \/ HealthFinish

SpecHealth == Init /\ [][HealthNext]_vars

\* The handler runs whenever it can take a step.
LiveHealth == SpecHealth /\ WF_vars(HealthNext)

(* ------------------------- claims on extract_data ---------------------- *)
\* The span the spec describes: from the first "{" to the last "}".
Opens(text) == {i \in 1..Len(text) : text[i] = "{"}
Closes(text) == {i \in 1..Len(text) : text[i] = "}"}
Least(S) == CHOOSE i \in S : \A j \in S : i <= j
Greatest(S) == CHOOSE i \in S : \A j \in S : j <= i
HasSpan(text) ==
    /\ Opens(text) # {}
    /\ Closes(text) # {}
    /\ Least(Opens(text)) < Greatest(Closes(text))
SpanOf(text) == SubSeq(text, Least(Opens(text)), Greatest(Closes(text)))
SpanParses(text) == HasSpan(text) /\ JsonLoadsOk(SpanOf(text))

\* The text before the first "." (the whole name when it has none).
IsStem(stem, name) ==
    \E n \in 0..Len(name) :
        /\ stem = SubSeq(name, 1, n)
        /\ \A i \in 1..n : name[i] # "."
        /\ (n = Len(name) \/ name[n + 1] = ".")

IsFallbackRecord(rec, name) ==
    /\ DOMAIN rec = {"date", "vendor", "amount", "tax", "source"}
    /\ rec["date"] = PyStr(<<>>)
    /\ rec["vendor"].t = "str" /\ IsStem(rec["vendor"].s, name)
    /\ rec["amount"] = PyInt(0, 0)
    /\ rec["tax"] = PyInt(0, 0)
    /\ rec["source"] = PyStr(name)

\* Service unreachable / exception / garbage body / no parseable JSON object.
AttemptFailed(reply) ==
    \/ reply.kind \in {"exc", "notjson", "list", "nullresp", "noresp"}
    \/ reply.kind = "text" /\ ~SpanParses(reply.text)

\* C1: whenever the extraction attempt fails, extract_data returns exactly
\* the fallback record (vendor = text of the name before its first ".",
\* date "", amount 0, tax 0, source = the name) and returns normally.
C1_FallbackOnFailure ==
    (ext_pc = "done" /\ AttemptFailed(ext_reply))
        => IsFallbackRecord(ext_result, ext_name)

C1_Witness ==
    /\ ext_pc = "done"
    /\ ext_name = <<"a", ".">>
    /\ ext_reply.kind = "text"
    /\ ext_reply.text = <<"{", "vendor:V", ",", "}">>
    /\ AttemptFailed(ext_reply)
    /\ ext_result["vendor"] = PyStr(<<"a">>)

\* C4: every invocation of extract_data eventually returns, even when the
\* call to the extraction service hangs.
C4_ExtractEventuallyReturns == (hc_pc = "posting") ~> (hc_pc = "merge")

\* C5: a transport failure, a non-2xx response and a malformed body all end
\* in the fallback record, also when the non-2xx body carries a JSON object
\* in its response text.
C5_Non2xxIsFailure ==
    (ext_pc = "done"
       /\ (\/ ext_reply.kind \in {"exc", "notjson", "list", "nullresp"}
           \/ ext_reply.status \notin 200..299))
        => IsFallbackRecord(ext_result, ext_name)

\* C9: whenever the span from the first "{" to the last "}" parses as a
\* JSON object (the empty object included), extract_data returns the parsed
\* mapping with source set to the document name and the other keys
\* unchanged; the fallback record is returned only on failure.
C9_ParsedMappingReturned ==
    (ext_pc = "done" /\ ext_reply.kind = "text" /\ SpanParses(ext_reply.text))
        => LET parsed == JsonLoads(SpanOf(ext_reply.text))
           IN  /\ DOMAIN ext_result = DOMAIN parsed \cup {"source"}
               /\ ext_result["source"] = PyStr(ext_name)
               /\ \A k \in DOMAIN parsed \ {"source"} : ext_result[k] = parsed[k]

(* ------------------------- claims on the aggregator -------------------- *)
\* C3: normalization never fails: every input mapping gives a record with
\* exactly the six canonical fields, and an amount or tax that cannot be
\* coerced to a number becomes 0.0 instead of raising.
C3_NormalizationNeverFails ==
    norm_pc = "done"
        => /\ ~norm_out.raised
           /\ DOMAIN norm_out.rec = {"date", "vendor", "amount", "tax", "source", "record_id"}
           /\ norm_out.rec["amount"].t = "float"
           /\ norm_out.rec["tax"].t = "float"
           /\ \A key \in {"amount", "tax"} :
                 Get(norm_in, key, PyInt(0, 0)).t \in {"none", "list"}
                     => norm_out.rec[key] = PyFloat(0, 0)

\* The reference flattening, by position: item i starts behind the records
\* of the items before it.
DictElems(l, j) == {k \in 1..j : l[k].k = "dict"}
Count(item) ==
    IF item.k = "dict" THEN 1
    ELSE IF item.k = "list" THEN Cardinality(DictElems(item.l, Len(item.l)))
    ELSE 0
RECURSIVE Offset(_, _)
Offset(results, i) == IF i <= 1 THEN 0 ELSE Offset(results, i - 1) + Count(results[i - 1])

InReferenceOrder(flat, results) ==
    /\ Len(flat) = Offset(results, Len(results) + 1)
    /\ \A i \in 1..Len(results) :
          /\ results[i].k = "dict" => flat[Offset(results, i) + 1] = results[i].d
          /\ results[i].k = "list" =>
                \A j \in DictElems(results[i].l, Len(results[i].l)) :
                    flat[Offset(results, i) + Cardinality(DictElems(results[i].l, j))]
                        = results[i].l[j].d

\* C6: the records merge_data flattens, and the records it returns, are in
\* one-to-one, in-order correspondence with the reference flattening of the
\* input: a mapping contributes itself, a list its mapping elements in
\* order, anything else nothing.
C6_FlattenInOrder ==
    mg_pc = "done"
        => /\ InReferenceOrder(mg_records, mg_in)
           /\ ~mg_out.raised =>
                 /\ Len(mg_out.out) = Offset(mg_in, Len(mg_in) + 1)
                 /\ \A n \in 1..Len(mg_out.out) :
                       mg_out.out[n]["date"] = mg_records[n]["date"]

C6_Witness ==
    /\ mg_pc = "done"
    /\ mg_in = <<DictItem(DateOnly("x")),
                 ListItem(<<DictItem(DateOnly("y")), DictItem(DateOnly("z"))>>)>>
    /\ ~mg_out.raised
    /\ [n \in 1..Len(mg_out.out) |-> mg_out.out[n]["date"].s] = <<<<"x">>, <<"y">>, <<"z">>>>

\* Trimming and case-folding, by position.
CasePairs == {{"u", "U"}, {"n", "N"}, {"k", "K"}, {"o", "O"}, {"w", "W"}, {"a", "A"}}
SameFolded(a, b) ==
    /\ Len(a) = Len(b)
    /\ \A i \in 1..Len(a) : a[i] = b[i] \/ {a[i], b[i]} \in CasePairs
Inked(s) == {i \in 1..Len(s) : s[i] # " "}
Trimmed(s) == IF Inked(s) = {} THEN <<>> ELSE SubSeq(s, Least(Inked(s)), Greatest(Inked(s)))
MeansAbsent(record, key) ==
    \/ key \notin DOMAIN record
    \/ record[key].t = "none"
    \/ /\ record[key].t = "str"
       /\ \E p \in {<<>>, <<"u", "n", "k", "n", "o", "w", "n">>, <<"n", "/", "a">>} :
             SameFolded(Trimmed(record[key].s), p)

\* C10: the normalized date (resp. vendor) is "" whenever the raw value is
\* absent, null or, trimmed and case-folded, one of "", "unknown", "n/a";
\* each of the two fields is decided by its own raw value.
C10_PlaceholderCollapse ==
    (norm_pc = "done" /\ ~norm_out.raised)
        => /\ MeansAbsent(norm_in, "date") => norm_out.rec["date"] = PyStr(<<>>)
           /\ MeansAbsent(norm_in, "vendor") => norm_out.rec["vendor"] = PyStr(<<>>)

C10_Witness ==
    /\ norm_pc = "done"
    /\ ~norm_out.raised
    /\ "date" \in DOMAIN norm_in
    /\ norm_in["date"] = PyStr(<<" ", "N", "/", "a">>)
    /\ "vendor" \in DOMAIN norm_in
    /\ norm_in["vendor"] = PyStr(<<"A", "B", "C">>)
    /\ norm_out.rec["date"] = PyStr(<<>>)
    /\ norm_out.rec["vendor"] = PyStr(<<"A", "B", "C">>)

(* ------------------------- claims on the pipeline ---------------------- *)
\* C2: a batch of N documents yields exactly N canonical records, the i-th
\* with the i-th document's name as source, whatever the extraction
\* service answered.
C2_EveryDocumentYieldsRecord ==
    /\ up_pc # "merge_raised"
    /\ up_pc \in {"csv", "done", "csv_raised"} =>
          /\ Len(up_merged) = Len(up_files)
          /\ \A i \in 1..Len(up_files) :
                up_merged[i]["source"] = PyStr(FileName(up_files[i]))

\* C8: whenever no create_csv call is in progress, the destination holds
\* no partial CSV: it is untouched or holds exactly the header and the
\* rows of one call's record list.
C8_NoPartialCsv ==
    (\A p \in Writers : csv_pc[p] \in {"idle", "done", "failed"})
        => \/ csv_file = NoFile
           \/ \E p \in Writers : csv_pc[p] # "idle" /\ csv_file = CsvLines(csv_data[p])
====
